---------------------------- MODULE Spec2Model ----------------------------
(***************************************************************************)
(* Build-time content sourcing of the documentation site                   *)
(* (gatsby/sourceNodes.ts): five upstream JSON feeds are fetched one after *)
(* the other and their records are turned into content nodes handed to     *)
(* createNode.                                                             *)
(*                                                                         *)
(* JS values: strings are TLA+ strings, except the strings the code edits  *)
(* (integration urls, endpoint group names), which are sequences of        *)
(* one-character strings.  JS objects are functions from property names to *)
(* values; a missing property is a name outside the DOMAIN.  Numbers are   *)
(* written as strings ("3").  createNodeId and createContentDigest are     *)
(* external hashes: a node keeps the value handed to each of them, and     *)
(* calls keeps, for every createNode call, the feed whose callback made it *)
(* and the values it handed to createNodeId and createContentDigest.       *)
(***************************************************************************)
EXTENDS Integers, Sequences, FiniteSets, TLC

VARIABLES apiKey, upstream, pc, i, created, calls, requested, error, build, history

\* the question form (AskAQuestion.js): the form values, the component state,
\* the requests without an answer yet, the POSTs sent, the events captured,
\* the rejections nobody handles, the number of calls of onSubmit and the
\* values handed to setTimestamp
VARIABLES values, timestamp, emailSubmitted, isSubmitting, inflight, posts,
          captured, unhandled, submits, stamps

srcVars == <<apiKey, upstream, pc, i, created, calls, requested, error, build, history>>

askVars == <<values, timestamp, emailSubmitted, isSubmitting, inflight, posts,
             captured, unhandled, submits, stamps>>

vars == <<srcVars, askVars>>

(***************************** bounds **************************************)
\* total number of records the five upstream payloads hold together
MaxRecords == 2
\* number of builds (runs of sourceNodes) on the same upstream data
MaxBuilds == 2
\* number of fragments an integration url is made of (url specification)
MaxParts == 3
\* number of calls of onSubmit of the question form
MaxSubmits == 2

(***************************** JS helpers **********************************)
Undefined == "<undefined>"

Has(o, k) == k \in DOMAIN o

\* o.k
Get(o, k) == IF Has(o, k) THEN o[k] ELSE Undefined

\* the value null where an object is expected
NullObject == [null |-> TRUE]

\* o.k?.f: undefined when o.k is undefined or null
OptGet(o, k, f) ==
    IF Has(o, k) /\ o[k] # NullObject THEN Get(o[k], f) ELSE Undefined

\* `${v}`
TemplateStr(v) == IF v = Undefined THEN "undefined" ELSE v

\* a test against undefined only: the empty string passes
TruthyDefinedOnly(v) == v # Undefined

\* if (v): truthiness of an environment string
Truthy(v) == v \notin {Undefined, ""}

\* const { k1, k2, ...other } = o
Rest(o, ks) == [k \in (DOMAIN o) \ ks |-> o[k]]

\* { ...a, ...b }: later properties override earlier ones
Assign(a, b) ==
    [k \in (DOMAIN a) \cup (DOMAIN b) |-> IF k \in DOMAIN b THEN b[k] ELSE a[k]]

\* index of the first occurrence of pat in s, 0 when there is none
IndexOf(s, pat) ==
    LET hits == {k \in 1..(Len(s) - Len(pat) + 1) :
                    SubSeq(s, k, k + Len(pat) - 1) = pat}
    IN  IF hits = {} THEN 0 ELSE CHOOSE k \in hits : \A m \in hits : k <= m

\* the replacement of every occurrence, as s.replace(/pat/g, rep) does it
RECURSIVE ReplaceAll(_, _, _)
ReplaceAll(s, pat, rep) ==
    LET k == IndexOf(s, pat)
    IN  IF k = 0 \/ pat = <<>> THEN s
        ELSE SubSeq(s, 1, k - 1) \o rep
             \o ReplaceAll(SubSeq(s, k + Len(pat), Len(s)), pat, rep)

\* s.replace(pat, rep) with a string pattern: the first occurrence only
ReplaceFirst(s, pat, rep) ==
    LET k == IndexOf(s, pat)
    IN  IF k = 0 THEN s
        ELSE SubSeq(s, 1, k - 1) \o rep \o SubSeq(s, k + Len(pat), Len(s))

\* JSON.stringify(o) of an object: properties whose value is undefined are
\* left out of the text
StringifyObject(o) ==
    [json |-> [k \in {n \in DOMAIN o : o[n] # Undefined} |-> o[k]]]

\* JSON.stringify(a) of an array of objects
StringifyArray(a) == [json |-> [k \in DOMAIN a |-> StringifyObject(a[k]).json]]

\* JSON.stringify(v) of a string or of undefined (which gives undefined)
StringifyValue(v) == IF v = Undefined THEN Undefined ELSE "\"" \o v \o "\""

SeqsUpTo(S, n) == UNION {[1..k -> S] : k \in 0..n}

Range(s) == {s[k] : k \in DOMAIN s}

(***************************** upstream data *******************************)
Feeds == <<"schema", "issues", "pulls", "integrations", "plugins">>

FeedSet == Range(Feeds)

PublisherDomain ==
    <<"h","t","t","p","s",":","/","/","p","o","s","t","h","o","g",".","c","o","m">>

ApiKeys == {Undefined, "", "phx_key"}

\* operation descriptors of an endpoint group, as MenuBuilder returns them
\* (each one points back to its group through parent)
OperationItems ==
    { [name |-> "list", httpVerb |-> "get", parent |-> "group"],
      [name |-> "create", httpVerb |-> "post", parent |-> "group",
       operationSpec |-> "spec"] }

EndpointNames ==
    { <<"a","_","b","_","c">>, <<"a","-","b","_","c">>, <<"u","_","v">>, <<"u","-","v">> }

EndpointRecords ==
    { [name |-> n, items |-> it] :
        n \in EndpointNames, it \in {<<>>} \cup {<<o>> : o \in OperationItems} }

GithubUser == [login |-> "a", avatar_url |-> "u", html_url |-> "p"]

IssueRecords ==
    { [html_url |-> "https://github.com/x/y/issues/1", title |-> "Bug",
       number |-> "1", user |-> GithubUser, comments |-> "3", state |-> "open"],
      [html_url |-> "https://github.com/x/y/issues/2", number |-> "2",
       user |-> NullObject, comments |-> "0"],
      [html_url |-> "https://github.com/x/y/issues/1", title |-> "Bug",
       number |-> "1", comments |-> "3"] }

PullRecords ==
    { [html_url |-> "https://github.com/x/y/pull/7", title |-> "Fix",
       number |-> "7", user |-> GithubUser, draft |-> "no"],
      [html_url |-> "https://github.com/x/y/pull/8", number |-> "8"] }

\* catalog records may carry properties named like the ones of a node; an
\* upstream id is a string, written as a pair like the seeds of createNodeId
UpstreamId == <<"upstream-id-", "42">>

UpstreamInternal == [type |-> "Custom", contentDigest |-> [custom |-> "x"]]

IntegrationRecords ==
    { [name |-> "Slack", url |-> PublisherDomain \o <<"/","s">>],
      [name |-> "Slack", url |-> <<"/","s">>],
      [name |-> "Slack", url |-> <<"/","z">>, description |-> "chat"],
      [name |-> "Sentry"],
      [url |-> <<"/","s">>],
      [name |-> "Slack", url |-> <<"/","s">>, id |-> UpstreamId,
       internal |-> UpstreamInternal, parent |-> "root", children |-> <<"c">>] }

PluginRecords ==
    { [name |-> "GeoIP", displayOnWebsiteLib |-> TRUE, url |-> "g"],
      [name |-> "Hidden", displayOnWebsiteLib |-> FALSE, url |-> "h"],
      [name |-> "Draft", url |-> "d"],
      [displayOnWebsiteLib |-> TRUE, url |-> "n"],
      [name |-> "GeoIP", displayOnWebsiteLib |-> TRUE, url |-> "g",
       id |-> UpstreamId, internal |-> UpstreamInternal] }

RecordsOf(f) ==
    CASE f = "schema"       -> EndpointRecords
      [] f = "issues"       -> IssueRecords
      [] f = "pulls"        -> PullRecords
      [] f = "integrations" -> IntegrationRecords
      [] f = "plugins"      -> PluginRecords

Pending == [kind |-> "pending", body |-> <<>>, components |-> Undefined]

\* records held by the payloads fetched so far
Used ==
    Len(upstream["schema"].body) + Len(upstream["issues"].body)
    + Len(upstream["pulls"].body) + Len(upstream["integrations"].body)
    + Len(upstream["plugins"].body)

\* what an endpoint can answer: a rejected request, a body that is not JSON,
\* a JSON value that is not a list (an error object), or a list of records
Responses(f) ==
    { [kind |-> k, body |-> <<>>, components |-> Undefined] :
        k \in {"reject", "nonjson", "object"} }
    \cup
    { [kind |-> "list", body |-> b, components |-> c] :
        b \in SeqsUpTo(RecordsOf(f), MaxRecords - Used),
        c \in IF f = "schema" THEN {Undefined, "schemas"} ELSE {Undefined} }

\* the answer of endpoint f: drawn at its first request, the same afterwards
Answers(f) == IF upstream[f] = Pending THEN Responses(f) ELSE {upstream[f]}

(***************************** nodes ***************************************)
Null == "<null>"

ApiEndpointPrefix == <<"a","p","i","_","e","n","d","p","o","i","n","t","-">>

ComponentsKey == <<"c","o","m","p","o","n","e","n","t","s">>

DocsApiPath == <<"/","d","o","c","s","/","a","p","i","/">>

\* (item) => ({ ...item, operationSpec: item.operationSpec, parent: null })
MapItem(item) ==
    Assign(Assign(item, [operationSpec |-> Get(item, "operationSpec")]),
           [parent |-> Null])

MapItems(items) == [k \in DOMAIN items |-> MapItem(items[k])]

EndpointDigest(endpoint) == [items |-> endpoint.items]

\* `api_endpoint-${endpoint.name}`
EndpointSeed(endpoint) == ApiEndpointPrefix \o endpoint.name

EndpointNode(endpoint) ==
    [id |-> EndpointSeed(endpoint),
     internal |-> [type |-> "api_endpoint",
                   contentDigest |-> EndpointDigest(endpoint)],
     items |-> StringifyArray(MapItems(endpoint.items)),
     schema |-> MapItems(endpoint.items),
     url |-> DocsApiPath \o ReplaceFirst(endpoint.name, <<"_">>, <<"-">>),
     name |-> endpoint.name]

ComponentsDigest(api_endpoints) == [components |-> api_endpoints.components]

\* `api_endpoint-components`
ComponentsSeed == ApiEndpointPrefix \o ComponentsKey

ComponentsNode(api_endpoints) ==
    [id |-> ComponentsSeed,
     internal |-> [type |-> "ApiComponents",
                   contentDigest |-> ComponentsDigest(api_endpoints)],
     components |-> StringifyValue(api_endpoints.components)]

\* the mapped fields on top of the other fields of the upstream record
IssueDataWithRest(issue) ==
    Assign(Rest(issue, {"html_url", "user"}),
           [url |-> Get(issue, "html_url"),
            title |-> Get(issue, "title"),
            number |-> Get(issue, "number"),
            comments |-> Get(issue, "comments"),
            user |-> [username |-> OptGet(issue, "user", "login"),
                      avatar |-> OptGet(issue, "user", "avatar_url"),
                      url |-> OptGet(issue, "user", "html_url")]])

IssueData(issue) ==
    [url |-> Get(issue, "html_url"),
     title |-> Get(issue, "title"),
     number |-> Get(issue, "number"),
     comments |-> Get(issue, "comments"),
     user |-> [username |-> OptGet(issue, "user", "login"),
               avatar |-> OptGet(issue, "user", "avatar_url"),
               url |-> OptGet(issue, "user", "html_url")]]

\* a digest of the natural key alone
IssueDigestTitleOnly(issue) == [title |-> Get(issue, "title")]

IssueDigest(issue) == IssueData(issue)

\* `posthog-issue-${title}`
IssueSeed(issue) == <<"posthog-issue-", TemplateStr(Get(issue, "title"))>>

IssueNode(issue) ==
    Assign([id |-> IssueSeed(issue),
            parent |-> Null,
            children |-> <<>>,
            internal |-> [type |-> "PostHogIssue",
                          contentDigest |-> IssueDigest(issue)]],
           IssueData(issue))

PullData(issue) ==
    [url |-> Get(issue, "html_url"),
     title |-> Get(issue, "title"),
     number |-> Get(issue, "number"),
     user |-> [username |-> OptGet(issue, "user", "login"),
               avatar |-> OptGet(issue, "user", "avatar_url"),
               url |-> OptGet(issue, "user", "html_url")]]

\* a digest that also covers the number of the build
PullDigestStamped(issue) == Assign(PullData(issue), [build |-> build])

PullDigest(issue) == PullData(issue)

\* `posthog-pull-${title}`
PullSeed(issue) == <<"posthog-pull-", TemplateStr(Get(issue, "title"))>>

PullNode(issue) ==
    Assign([id |-> PullSeed(issue),
            parent |-> Null,
            children |-> <<>>,
            internal |-> [type |-> "PostHogPull",
                          contentDigest |-> PullDigest(issue)]],
           PullData(issue))

\* url.replace('https://posthog.com', '')
RewriteUrl(url) == ReplaceFirst(url, PublisherDomain, <<>>)

IntegrationDigest(integration) == integration

\* `integration-${name}`
IntegrationSeed(integration) == <<"integration-", TemplateStr(Get(integration, "name"))>>

\* url is read with url.replace(...): the record must have one
IntegrationNode(integration) ==
    Assign([id |-> IntegrationSeed(integration),
            parent |-> Null,
            children |-> <<>>,
            internal |-> [type |-> "Integration",
                          contentDigest |-> IntegrationDigest(integration)],
            url |-> RewriteUrl(integration.url),
            name |-> Get(integration, "name")],
           Rest(integration, {"name", "url"}))

\* a test of the presence of the flag instead of its value
PluginShownIfPresent(plugin) == Has(plugin, "displayOnWebsiteLib")

\* if (displayOnWebsiteLib)
PluginShown(plugin) ==
    Has(plugin, "displayOnWebsiteLib") /\ plugin.displayOnWebsiteLib

PluginDigest(plugin) == plugin

\* `plugin-${name}`
PluginSeed(plugin) == <<"plugin-", TemplateStr(Get(plugin, "name"))>>

\* the node of a plugin with every property of the record but name
PluginNodeKeepsFlag(plugin) ==
    Assign([id |-> PluginSeed(plugin),
            parent |-> Null,
            children |-> <<>>,
            internal |-> [type |-> "Plugin",
                          contentDigest |-> PluginDigest(plugin)],
            name |-> Get(plugin, "name")],
           Rest(plugin, {"name"}))

PluginNode(plugin) ==
    Assign([id |-> PluginSeed(plugin),
            parent |-> Null,
            children |-> <<>>,
            internal |-> [type |-> "Plugin",
                          contentDigest |-> PluginDigest(plugin)],
            name |-> Get(plugin, "name")],
           Rest(plugin, {"displayOnWebsiteLib", "name"}))

(***************************** the question form ***************************)
FormFields == {"name", "question", "email", "subject", "mary-chain"}

\* initialValues, useState(null), useState(false)
InitForm ==
    /\ values = [f \in FormFields |-> ""]
    /\ timestamp = Null
    /\ emailSubmitted = FALSE
    /\ isSubmitting = FALSE
    /\ inflight = <<>>
    /\ posts = <<>>
    /\ captured = 0
    /\ unhandled = <<>>
    /\ submits = 0
    /\ stamps = <<>>

(***************************** the sourcing pass ***************************)
NoError == [kind |-> "none", at |-> "none"]

Init ==
    /\ InitForm
    /\ apiKey \in ApiKeys
    /\ upstream = [f \in FeedSet |-> Pending]
    /\ pc = "gate"
    /\ i = 1
    /\ created = <<>>
    /\ calls = <<>>
    /\ requested = <<>>
    /\ error = NoError
    /\ build = 1
    /\ history = <<>>

\* an exception that is caught and dropped: the promise resolves
ThrowSwallowed(f, kind) ==
    /\ pc' = "done"
    /\ error' = error

\* an exception leaves sourceNodes: the returned promise rejects
Throw(f, kind) ==
    /\ pc' = "rejected"
    /\ error' = [kind |-> kind, at |-> f]

\* await fetch(...).then((res) => res.json()) followed by list.forEach:
\* the request of feed f and the start of the loop over its answer
Fetch(f, loopPc, nextPc) ==
    \E r \in Answers(f) :
        /\ upstream' = [upstream EXCEPT ![f] = r]
        /\ requested' = Append(requested, f)
        /\ i' = 1
        /\ CASE r.kind = "reject"  -> Throw(f, "FetchError")
             [] r.kind = "nonjson" -> Throw(f, "SyntaxError")
             [] r.kind = "object"  -> Throw(f, "TypeError")
             [] OTHER ->
                 /\ pc' = IF Len(r.body) = 0 THEN nextPc ELSE loopPc
                 /\ error' = error
        /\ UNCHANGED <<apiKey, created, calls, build, history>>
        /\ UNCHANGED askVars

\* the values one callback hands to createNodeId and createContentDigest
Call(f, seed, digest) == [feed |-> f, seed |-> seed, digest |-> digest]

\* one callback of forEach that ends with createNode(node)
Emit(f, node, call, nextPc) ==
    /\ created' = Append(created, node)
    /\ calls' = Append(calls, call)
    /\ i' = i + 1
    /\ pc' = IF i = Len(upstream[f].body) THEN nextPc ELSE pc
    /\ UNCHANGED <<apiKey, upstream, requested, error, build, history>>
    /\ UNCHANGED askVars

\* if (process.env.POSTHOG_APP_API_KEY)
Gate ==
    /\ pc = "gate"
    /\ pc' = IF Truthy(apiKey) THEN "schema_fetch" ELSE "issues_fetch"
    /\ UNCHANGED <<apiKey, upstream, i, created, calls, requested, error, build, history>>
    /\ UNCHANGED askVars

\* the schema request, MenuBuilder.buildStructure and the list of groups
\* menu[menu.length - 1]['items']; a JSON answer that is not an API schema
\* (kind "object") has no such menu entry: a TypeError
FetchSchema ==
    /\ pc = "schema_fetch"
    /\ Fetch("schema", "schema_each", "schema_components")

CreateEndpointNode ==
    /\ pc = "schema_each"
    /\ LET endpoint == upstream["schema"].body[i]
       IN  Emit("schema", EndpointNode(endpoint),
                Call("schema", EndpointSeed(endpoint), EndpointDigest(endpoint)),
                "schema_components")

CreateComponentsNode ==
    /\ pc = "schema_components"
    /\ created' = Append(created, ComponentsNode(upstream["schema"]))
    /\ calls' = Append(calls, Call("schema", ComponentsSeed,
                                   ComponentsDigest(upstream["schema"])))
    /\ pc' = "issues_fetch"
    /\ UNCHANGED <<apiKey, upstream, i, requested, error, build, history>>
    /\ UNCHANGED askVars

FetchIssues ==
    /\ pc = "issues_fetch"
    /\ Fetch("issues", "issues_each", "pulls_fetch")

CreateIssueNode ==
    /\ pc = "issues_each"
    /\ LET issue == upstream["issues"].body[i]
       IN  Emit("issues", IssueNode(issue),
                Call("issues", IssueSeed(issue), IssueDigest(issue)), "pulls_fetch")

FetchPulls ==
    /\ pc = "pulls_fetch"
    /\ Fetch("pulls", "pulls_each", "integrations_fetch")

CreatePullNode ==
    /\ pc = "pulls_each"
    /\ LET issue == upstream["pulls"].body[i]
       IN  Emit("pulls", PullNode(issue),
                Call("pulls", PullSeed(issue), PullDigest(issue)), "integrations_fetch")

FetchIntegrations ==
    /\ pc = "integrations_fetch"
    /\ Fetch("integrations", "integrations_each", "plugins_fetch")

CreateIntegrationNode ==
    /\ pc = "integrations_each"
    /\ LET integration == upstream["integrations"].body[i]
       IN  IF Has(integration, "url")
           THEN Emit("integrations", IntegrationNode(integration),
                     Call("integrations", IntegrationSeed(integration),
                          IntegrationDigest(integration)),
                     "plugins_fetch")
           ELSE /\ Throw("integrations", "TypeError")
                /\ UNCHANGED <<apiKey, upstream, i, created, calls, requested, build,
                                history>>
                /\ UNCHANGED askVars

FetchPlugins ==
    /\ pc = "plugins_fetch"
    /\ Fetch("plugins", "plugins_each", "done")

VisitPlugin ==
    /\ pc = "plugins_each"
    /\ LET plugin == upstream["plugins"].body[i]
       IN  IF PluginShown(plugin)
           THEN Emit("plugins", PluginNode(plugin),
                     Call("plugins", PluginSeed(plugin), PluginDigest(plugin)), "done")
           ELSE /\ i' = i + 1
                /\ pc' = IF i = Len(upstream["plugins"].body) THEN "done" ELSE pc
                /\ UNCHANGED <<apiKey, upstream, created, calls, requested, error,
                                build, history>>
                /\ UNCHANGED askVars

Settled == pc \in {"done", "rejected"}

\* the next build calls sourceNodes again, with the same environment and the
\* same upstream data
Rebuild ==
    /\ Settled
    /\ build < MaxBuilds
    /\ history' = Append(history, [created |-> created, calls |-> calls,
                                   requested |-> requested,
                                   error |-> error, pc |-> pc])
    /\ build' = build + 1
    /\ pc' = "gate"
    /\ i' = 1
    /\ created' = <<>>
    /\ calls' = <<>>
    /\ requested' = <<>>
    /\ error' = NoError
    /\ UNCHANGED <<apiKey, upstream>>
    /\ UNCHANGED askVars

Next ==
    \/ Gate
    \/ FetchSchema
    \/ CreateEndpointNode
    \/ CreateComponentsNode
    \/ FetchIssues
    \/ CreateIssueNode
    \/ FetchPulls
    \/ CreatePullNode
    \/ FetchIntegrations
    \/ CreateIntegrationNode
    \/ FetchPlugins
    \/ VisitPlugin
    \/ Rebuild

Spec == Init /\ [][Next]_vars

TypeOK ==
    /\ apiKey \in ApiKeys
    /\ build \in 1..MaxBuilds
    /\ Used <= MaxRecords
    /\ Len(history) = build - 1
    /\ Len(calls) = Len(created)

(***************************** observations ********************************)
TypesOf(f) ==
    CASE f = "schema"       -> {"api_endpoint", "ApiComponents"}
      [] f = "issues"       -> {"PostHogIssue"}
      [] f = "pulls"        -> {"PostHogPull"}
      [] f = "integrations" -> {"Integration"}
      [] f = "plugins"      -> {"Plugin"}

NaturalKey(f) == IF f \in {"issues", "pulls"} THEN "title" ELSE "name"

\* the positions in created of the nodes made by the callbacks of feed f
CallsOf(f) == SelectSeq([k \in DOMAIN calls |-> k], LAMBDA k : calls[k].feed = f)

\* the nodes of feed f handed to createNode in this build, in order
NodesOf(f) == [j \in DOMAIN CallsOf(f) |-> created[CallsOf(f)[j]]]

Count(s, f) == Cardinality({k \in DOMAIN s : s[k] = f})

\* the feeds the pass is configured to source
Configured == IF Truthy(apiKey) THEN FeedSet ELSE FeedSet \ {"schema"}

Keyed(f) == {k \in DOMAIN upstream[f].body : Has(upstream[f].body[k], NaturalKey(f))}

WellFormed(f, rec) ==
    /\ Has(rec, NaturalKey(f))
    /\ f = "integrations" => Has(rec, "url")

NodeFor(f, rec) ==
    CASE f = "issues"       -> IssueNode(rec)
      [] f = "pulls"        -> PullNode(rec)
      [] f = "integrations" -> IntegrationNode(rec)

\* the nodes the normalizer makes of the answer of feed f, when it is a list
\* of records the normalizer can read
ExpectedNodes(f) ==
    LET body == upstream[f].body
    IN  CASE f = "schema" ->
                 [k \in DOMAIN body |-> EndpointNode(body[k])]
                 \o <<ComponentsNode(upstream[f])>>
          [] f = "issues" -> [k \in DOMAIN body |-> IssueNode(body[k])]
          [] f = "pulls" -> [k \in DOMAIN body |-> PullNode(body[k])]
          [] f = "integrations" -> [k \in DOMAIN body |-> IntegrationNode(body[k])]
          [] f = "plugins" ->
                 LET shown == SelectSeq(body, LAMBDA r :
                                  Has(r, "displayOnWebsiteLib") /\ r.displayOnWebsiteLib)
                 IN  [k \in DOMAIN shown |-> PluginNode(shown[k])]

\* the fields of a node: everything but its identifier and its internal part
Fields(n) == Rest(n, {"id", "internal"})

KeyAbsent == apiKey \in {Undefined, ""}

(***************************** claims **************************************)
\* C1  Feed isolation: when one feed fails, every other feed of the pass is
\* still requested, and each one whose answer is a list has its nodes created
\* (one per record; for the schema feed one per group and the components node).
C1_FeedIsolation ==
    (Settled /\ error # NoError) =>
        \A f \in Configured \ {error.at} :
            /\ Count(requested, f) = 1
            /\ upstream[f].kind = "list" => NodesOf(f) = ExpectedNodes(f)

\* C2  No partial emission: a feed whose sourcing failed has no node created
\* in that build.
C2_NoPartialEmission ==
    error # NoError => NodesOf(error.at) = <<>>

\* C4  Node count per record: once the pass has completed, the issues, pulls
\* and integrations feeds each have exactly as many nodes as they have records
\* with their natural key (records without it yield none).
C4_NodePerKeyedRecord ==
    pc = "done" =>
        \A f \in {"issues", "pulls", "integrations"} :
            Len(NodesOf(f)) = Cardinality(Keyed(f))

\* C5  A malformed record does not halt its feed: a feed whose answer is a
\* list never throws, and at the end of the pass every well-formed record of
\* that list has its node.
C5_MalformedRecordDoesNotHalt ==
    \A f \in {"issues", "pulls", "integrations"} :
        upstream[f].kind = "list" =>
            /\ error.at # f
            /\ Settled /\ Count(requested, f) = 1 =>
                   \A k \in DOMAIN upstream[f].body :
                       WellFormed(f, upstream[f].body[k]) =>
                           \E m \in DOMAIN created :
                               created[m] = NodeFor(f, upstream[f].body[k])

\* C3  Credential gate: with POSTHOG_APP_API_KEY absent or empty the schema
\* endpoint is never requested, no api_endpoint or ApiComponents node is
\* created, no error comes from the schema feed, the pass goes on with the
\* issues feed, and a pass that completes has requested the four other feeds
\* once each and created their nodes.
C3_CredentialGate ==
    KeyAbsent =>
        /\ Count(requested, "schema") = 0
        /\ NodesOf("schema") = <<>>
        /\ error.at # "schema"
        /\ pc \notin {"schema_fetch", "schema_each", "schema_components"}
        /\ requested # <<>> => requested[1] = "issues"
        /\ pc = "done" =>
               \A f \in FeedSet \ {"schema"} :
                   /\ Count(requested, f) = 1
                   /\ NodesOf(f) = ExpectedNodes(f)

C3_Witness ==
    /\ apiKey = ""
    /\ pc = "done"
    /\ Len(NodesOf("issues")) > 0
    /\ Len(NodesOf("plugins")) > 0

C10_PluginVisibility ==
    (Count(requested, "plugins") = 1 /\ upstream["plugins"].kind = "list") =>
        LET body == upstream["plugins"].body
            visited == IF pc = "plugins_each" THEN i - 1 ELSE Len(body)
            flagged == SelectSeq(SubSeq(body, 1, visited), LAMBDA r :
                           Has(r, "displayOnWebsiteLib") /\ r.displayOnWebsiteLib = TRUE)
            nodes == NodesOf("plugins")
        IN  /\ Len(nodes) = Len(flagged)
            /\ \A k \in DOMAIN nodes :
                   /\ calls[CallsOf("plugins")[k]].digest = flagged[k]
                   /\ nodes[k].name = Get(flagged[k], "name")

C10_Witness ==
    /\ pc = "done"
    /\ Len(upstream["plugins"].body) = 2
    /\ \E k \in 1..2 : /\ Has(upstream["plugins"].body[k], "displayOnWebsiteLib")
                       /\ ~upstream["plugins"].body[k].displayOnWebsiteLib
    /\ Len(NodesOf("plugins")) = 1

(***************************** integration urls ****************************)
\* The pass from the integrations request on, for a catalog of one record
\* whose url is put together from fragments of the publisher's domain; the
\* issues and pulls feeds have answered with empty lists, the key is absent.
UpperDomain ==
    <<"H","T","T","P","S",":","/","/","P","O","S","T","H","O","G",".","C","O","M">>

UrlFragments ==
    { PublisherDomain, UpperDomain, <<"/">>, <<"d">>,
      SubSeq(PublisherDomain, 1, 12), SubSeq(PublisherDomain, 13, 19) }

RECURSIVE Concat(_)
Concat(parts) == IF parts = <<>> THEN <<>> ELSE Head(parts) \o Concat(Tail(parts))

UrlInputs == {Concat(parts) : parts \in SeqsUpTo(UrlFragments, MaxParts)}

EmptyList == [kind |-> "list", body |-> <<>>, components |-> Undefined]

InitUrl ==
    /\ InitForm
    /\ apiKey = Undefined
    /\ \E u \in UrlInputs :
           upstream = [f \in FeedSet |->
               CASE f \in {"issues", "pulls"} -> EmptyList
                 [] f = "integrations" ->
                        [kind |-> "list", body |-> <<[name |-> "Slack", url |-> u]>>,
                         components |-> Undefined]
                 [] OTHER -> Pending]
    /\ pc = "integrations_fetch"
    /\ i = 1
    /\ created = <<>>
    /\ calls = <<>>
    /\ requested = <<"issues", "pulls">>
    /\ error = NoError
    /\ build = 1
    /\ history = <<>>

NextUrl ==
    \/ FetchIntegrations
    \/ CreateIntegrationNode

SpecUrl == InitUrl /\ [][NextUrl]_vars

LowerChar(c) ==
    CASE c = "H" -> "h" [] c = "T" -> "t" [] c = "P" -> "p" [] c = "S" -> "s"
      [] c = "O" -> "o" [] c = "G" -> "g" [] c = "C" -> "c" [] c = "M" -> "m"
      [] OTHER -> c

Lower(s) == [k \in DOMAIN s |-> LowerChar(s[k])]

StartsWithIgnoringCase(u, p) ==
    Len(u) >= Len(p) /\ Lower(SubSeq(u, 1, Len(p))) = Lower(p)

\* the url without the publisher domain at its start, matched in any case
StripPublisherPrefix(u) ==
    IF StartsWithIgnoringCase(u, PublisherDomain)
    THEN SubSeq(u, Len(PublisherDomain) + 1, Len(u))
    ELSE u

\* C8  URL rewrite idempotence: the url of an Integration node is a fixed
\* point of the rewrite, and an upstream url that starts with '/' is the
\* node's url unchanged.
C8_RewriteIdempotent ==
    LET nodes == NodesOf("integrations")
        body == upstream["integrations"].body
    IN  \A k \in DOMAIN nodes :
            /\ RewriteUrl(nodes[k].url) = nodes[k].url
            /\ (Len(body[k].url) > 0 /\ body[k].url[1] = "/")
                   => nodes[k].url = body[k].url

\* C9  URL rewrite is a case-insensitive prefix strip: the url of an
\* Integration node is the upstream url without the publisher domain when the
\* upstream url starts with it in any letter case, and the upstream url
\* unchanged otherwise.
C9_PrefixStripIgnoringCase ==
    LET nodes == NodesOf("integrations")
        body == upstream["integrations"].body
    IN  \A k \in DOMAIN nodes : nodes[k].url = StripPublisherPrefix(body[k].url)

\* C11  Issue field mapping: a PostHogIssue node has url = html_url, title,
\* number and comments of its record, user = {username: user.login, avatar:
\* user.avatar_url, url: user.html_url}, and no other field of the record; a
\* record whose user is null or missing gets a user whose three members are
\* undefined, and no record of a list makes the issues feed throw.
C11_IssueFieldMapping ==
    LET nodes == NodesOf("issues")
        body == upstream["issues"].body
    IN  /\ \A k \in DOMAIN nodes :
               LET r == body[k]
                   n == nodes[k]
                   hasUser == "user" \in DOMAIN r /\ r.user # NullObject
               IN  /\ DOMAIN n = {"id", "parent", "children", "internal",
                                  "url", "title", "number", "comments", "user"}
                   /\ n.url = Get(r, "html_url")
                   /\ n.title = Get(r, "title")
                   /\ n.number = Get(r, "number")
                   /\ n.comments = Get(r, "comments")
                   /\ n.user = IF hasUser
                               THEN [username |-> r.user.login,
                                     avatar |-> r.user.avatar_url,
                                     url |-> r.user.html_url]
                               ELSE [username |-> Undefined, avatar |-> Undefined,
                                     url |-> Undefined]
        /\ (upstream["issues"].kind = "list" /\ pc \notin {"issues_fetch", "issues_each"}
              /\ Count(requested, "issues") = 1)
               => (error.at # "issues" /\ Len(nodes) = Len(body))

C11_Witness ==
    /\ Len(NodesOf("issues")) = 2
    /\ \E k, m \in 1..2 :
           /\ Has(upstream["issues"].body[k], "state")
           /\ Has(upstream["issues"].body[m], "user")
           /\ upstream["issues"].body[m].user = NullObject
           /\ NodesOf("issues")[m].user.username = Undefined

\* C12  Identifier uniqueness: within one build createNode is never called
\* twice with the same id for the same type tag.
C12_UniqueIds ==
    \A k, m \in DOMAIN created :
        (k # m /\ created[k].internal.type = created[m].internal.type)
            => created[k].id # created[m].id

NodeTypes ==
    {"api_endpoint", "ApiComponents", "PostHogIssue", "PostHogPull",
     "Integration", "Plugin"}

\* C13  Identifier derivation: the id and the internal {type, contentDigest}
\* of every node handed to createNode are the ones sourceNodes computed for
\* it: the id is createNodeId of the feed's prefix and the natural key, the
\* type is the feed's type and the digest is the one of createContentDigest,
\* whatever other fields the upstream record carries.
C13_ComputedIdAndInternal ==
    \A k \in DOMAIN created :
        /\ created[k].id = calls[k].seed
        /\ created[k].internal.type \in TypesOf(calls[k].feed)
        /\ created[k].internal.contentDigest = calls[k].digest

\* C16  Catalog pass-through: an Integration node has every upstream property
\* other than name and url with its upstream value, and the upstream name; a
\* Plugin node has every upstream property other than name and
\* displayOnWebsiteLib with its upstream value, the upstream name, and no
\* displayOnWebsiteLib.
C16_CatalogPassThrough ==
    LET inodes == NodesOf("integrations")
        ibody == upstream["integrations"].body
        pnodes == NodesOf("plugins")
        pbody == SelectSeq(upstream["plugins"].body, LAMBDA r :
                     Has(r, "displayOnWebsiteLib") /\ r.displayOnWebsiteLib = TRUE)
    IN  /\ \A k \in DOMAIN inodes :
               /\ \A key \in (DOMAIN ibody[k]) \ {"name", "url"} :
                      key \in DOMAIN inodes[k] /\ inodes[k][key] = ibody[k][key]
               /\ inodes[k].name = Get(ibody[k], "name")
        /\ \A k \in DOMAIN pnodes :
               /\ \A key \in (DOMAIN pbody[k]) \ {"name", "displayOnWebsiteLib"} :
                      key \in DOMAIN pnodes[k] /\ pnodes[k][key] = pbody[k][key]
               /\ pnodes[k].name = Get(pbody[k], "name")
               /\ "displayOnWebsiteLib" \notin DOMAIN pnodes[k]

C16_Witness ==
    /\ pc = "done"
    /\ \E k \in DOMAIN NodesOf("integrations") :
           /\ Has(upstream["integrations"].body[k], "description")
           /\ NodesOf("integrations")[k].description = "chat"
    /\ \E k \in DOMAIN NodesOf("plugins") :
           /\ NodesOf("plugins")[k].url = "g"
           /\ NodesOf("plugins")[k].name = "GeoIP"

\* C17  Type tags: every node handed to createNode carries one of the six
\* type tags, the tag is the one of the feed the record came from, and a
\* build whose schema feed succeeded has exactly one ApiComponents node.
C17_TypeTags ==
    /\ \A k \in DOMAIN created :
           /\ created[k].internal.type \in NodeTypes
           /\ \A f \in FeedSet :
                  created[k].internal.type \in TypesOf(f) => calls[k].feed = f
    /\ (Count(requested, "schema") = 1 /\ upstream["schema"].kind = "list"
          /\ pc \notin {"schema_fetch", "schema_each", "schema_components"})
           => Cardinality({k \in DOMAIN created :
                              created[k].internal.type = "ApiComponents"}) = 1

\* the nodes the answer of feed f yields on its own: none when the request or
\* the payload fails, the nodes of the records before the first one the
\* callback cannot read otherwise
OwnNodes(f) ==
    LET body == upstream[f].body
        bad == {k \in DOMAIN body : f = "integrations" /\ ~Has(body[k], "url")}
        n == IF bad = {} THEN Len(body)
             ELSE (CHOOSE k \in bad : \A m \in bad : k <= m) - 1
    IN  CASE upstream[f].kind # "list" -> <<>>
          [] f = "integrations" -> [k \in 1..n |-> IntegrationNode(body[k])]
          [] OTHER -> ExpectedNodes(f)

\* C14  Order independence of feeds: the nodes handed to the store are the
\* ones each configured feed yields from its own answer, whatever the other
\* feeds answered and wherever the feed stands in the pass: at the end of a
\* build every configured feed has been requested and the store has received
\* exactly the union of the feeds' own nodes.
C14_OrderIndependence ==
    Settled =>
        /\ \A f \in Configured : Count(requested, f) = 1
        /\ Range(created) = UNION {Range(OwnNodes(f)) : f \in Configured}

\* the order in which the pass requests the feeds
RequestOrder == IF KeyAbsent THEN Tail(Feeds) ELSE Feeds

\* C15  One request per endpoint, no retry, failure surfaces: the requests of
\* a build are the configured endpoints in order, each once, up to the point
\* the pass has reached; after a rejected request or a body that is not JSON
\* the promise is rejected, no further request is made and the feed has no
\* node.
C15_OneRequestNoRetry ==
    /\ Len(requested) <= Len(RequestOrder)
    /\ requested = SubSeq(RequestOrder, 1, Len(requested))
    /\ pc = "done" => requested = RequestOrder
    /\ \A f \in FeedSet :
           (Count(requested, f) = 1 /\ upstream[f].kind \in {"reject", "nonjson"}) =>
               /\ pc = "rejected"
               /\ error.at = f
               /\ error.kind = IF upstream[f].kind = "reject"
                               THEN "FetchError" ELSE "SyntaxError"
               /\ requested[Len(requested)] = f
               /\ NodesOf(f) = <<>>

C15_Witness ==
    /\ pc = "rejected"
    /\ error = [kind |-> "SyntaxError", at |-> "pulls"]
    /\ Len(created) > 0
    /\ build = 2

\* the name with its first underscore turned into a hyphen
RECURSIVE HyphenateFirst(_)
HyphenateFirst(name) ==
    IF name = <<>> THEN <<>>
    ELSE IF Head(name) = "_" THEN <<"-">> \o Tail(name)
    ELSE <<Head(name)>> \o HyphenateFirst(Tail(name))

\* n1 and n2 differ only in their first separator: '_' in n1, '-' in n2
DifferInFirstSeparator(n1, n2) ==
    /\ Len(n1) = Len(n2)
    /\ \E p \in DOMAIN n1 :
           /\ n1[p] = "_" /\ n2[p] = "-"
           /\ \A q \in DOMAIN n1 : q # p => n1[q] = n2[q]
           /\ \A q \in 1..(p - 1) : n1[q] \notin {"_", "-"}

EndpointNodes == SelectSeq(NodesOf("schema"), LAMBDA n : n.internal.type = "api_endpoint")

\* C18 (as stated)  Endpoint-group URL derivation: the url is '/docs/api/' and
\* the name with its first underscore replaced by a hyphen, the name field is
\* the group name, and two groups whose names differ only in their first
\* separator being '_' or '-' get the same url and different ids.
C18_UrlOfFirstSeparator ==
    \A k, m \in DOMAIN EndpointNodes :
        LET a == EndpointNodes[k]
            b == EndpointNodes[m]
        IN  /\ a.url = DocsApiPath \o HyphenateFirst(a.name)
            /\ DifferInFirstSeparator(a.name, b.name) => (a.url = b.url /\ a.id # b.id)

\* C18 (amended)  The url is '/docs/api/' and the name with its first
\* underscore replaced by a hyphen, the name field is the group name; two
\* groups whose names differ only in their first separator being '_' or '-'
\* get different ids, and the same url exactly when the name has no later
\* underscore (with one, the name that starts with the hyphen has that later
\* underscore replaced instead).
C18_UrlDerivation ==
    /\ \A k \in DOMAIN NodesOf("schema") :
           LET n == NodesOf("schema")[k]
           IN  n.internal.type = "api_endpoint" =>
                   /\ n.name = upstream["schema"].body[k].name
                   /\ n.url = DocsApiPath \o HyphenateFirst(n.name)
                   /\ n.id = ApiEndpointPrefix \o n.name
    /\ \A k, m \in DOMAIN EndpointNodes :
           LET a == EndpointNodes[k]
               b == EndpointNodes[m]
           IN  DifferInFirstSeparator(a.name, b.name) =>
                   /\ a.id # b.id
                   /\ a.url = b.url <=> (\A q \in DOMAIN b.name : b.name[q] # "_")

C18_Witness ==
    \E k, m \in DOMAIN EndpointNodes :
        /\ EndpointNodes[k].name = <<"u","_","v">>
        /\ EndpointNodes[m].name = <<"u","-","v">>
        /\ EndpointNodes[k].url = EndpointNodes[m].url
        /\ EndpointNodes[k].url = DocsApiPath \o <<"u","-","v">>

(***************************** the question form: steps ********************)
\* location.pathname of the page that shows the form
Slug == "/docs/integrations"

AskEndpoint == "/.netlify/functions/ask-a-question"

\* what a visitor (or a bot) writes into a field
FieldInputs == {"", "text"}

\* the JSON bodies the function answers with: a stamp, an empty stamp, an
\* object without a stamp, and null
ResponseData ==
    {[timestamp |-> "1700000000"], [timestamp |-> ""], [message |-> "failed"],
     NullObject}

\* validate: the fields that get a 'Required' error
Validate(v) == {f \in {"name", "subject", "question", "email"} : v[f] = ""}

\* !t is false
NonEmptyStamp(t) == t \notin {Null, Undefined, ""}

\* the component the render function returns
View == IF ~NonEmptyStamp(timestamp) THEN "AskQuestion" ELSE "QuestionSubmitted"

\* JSON.stringify({ ...values, slug: location.pathname, timestamp })
RequestBody ==
    StringifyObject(Assign(values, [slug |-> Slug, timestamp |-> timestamp]))

\* the sequence s without its k-th element
Remove(s, k) == SubSeq(s, 1, k - 1) \o SubSeq(s, k + 1, Len(s))

\* the form is the only thing at work: the sourcing pass is idle
InitAsk ==
    /\ InitForm
    /\ apiKey = Undefined
    /\ upstream = [f \in FeedSet |-> Pending]
    /\ pc = "gate"
    /\ i = 1
    /\ created = <<>>
    /\ calls = <<>>
    /\ requested = <<>>
    /\ error = NoError
    /\ build = 1
    /\ history = <<>>

\* setFieldValue(f, v)
SetFieldValue(f, v) ==
    /\ values[f] # v
    /\ values' = [values EXCEPT ![f] = v]
    /\ UNCHANGED <<timestamp, emailSubmitted, isSubmitting, inflight, posts,
                   captured, unhandled, submits, stamps>>
    /\ UNCHANGED srcVars

\* onSubmit without the test of the hidden field
OnSubmitNoHoneypot ==
    /\ submits < MaxSubmits
    /\ Validate(values) = {}
    /\ submits' = submits + 1
    /\ isSubmitting' = TRUE
    /\ posts' = Append(posts, [url |-> AskEndpoint, method |-> "POST",
                               body |-> RequestBody])
    /\ inflight' = Append(inflight, Len(posts) + 1)
    /\ UNCHANGED <<values, timestamp, emailSubmitted, captured, unhandled, stamps>>
    /\ UNCHANGED srcVars

\* onSubmit, which the form calls once validate reports no error: return at
\* once when the hidden field is filled, else setSubmitting(true) and the POST
OnSubmit ==
    /\ submits < MaxSubmits
    /\ Validate(values) = {}
    /\ submits' = submits + 1
    /\ IF values["mary-chain"] # ""
       THEN UNCHANGED <<isSubmitting, posts, inflight>>
       ELSE /\ isSubmitting' = TRUE
            /\ posts' = Append(posts, [url |-> AskEndpoint, method |-> "POST",
                                       body |-> RequestBody])
            /\ inflight' = Append(inflight, Len(posts) + 1)
    /\ UNCHANGED <<values, timestamp, emailSubmitted, captured, unhandled, stamps>>
    /\ UNCHANGED srcVars

\* the request answers with the JSON body data: the second then callback.
\* With data null the capture is done and data.timestamp throws.
Resolve(k, data) ==
    /\ k \in DOMAIN inflight
    /\ inflight' = Remove(inflight, k)
    /\ captured' = captured + 1
    /\ IF data = NullObject
       THEN /\ unhandled' = Append(unhandled, "TypeError")
            /\ UNCHANGED <<timestamp, emailSubmitted, isSubmitting, stamps>>
       ELSE /\ timestamp' = Get(data, "timestamp")
            /\ stamps' = Append(stamps, Get(data, "timestamp"))
            /\ emailSubmitted' = TRUE
            /\ isSubmitting' = FALSE
            /\ UNCHANGED unhandled
    /\ UNCHANGED <<values, posts, submits>>
    /\ UNCHANGED srcVars

\* the request is rejected: the chain has no catch, no callback runs
FetchRejects(k) ==
    /\ k \in DOMAIN inflight
    /\ inflight' = Remove(inflight, k)
    /\ unhandled' = Append(unhandled, "NetworkError")
    /\ UNCHANGED <<values, timestamp, emailSubmitted, isSubmitting, posts,
                   captured, submits, stamps>>
    /\ UNCHANGED srcVars

\* the answer is not JSON: res.json() rejects, the second callback never runs
BodyNotJson(k) ==
    /\ k \in DOMAIN inflight
    /\ inflight' = Remove(inflight, k)
    /\ unhandled' = Append(unhandled, "SyntaxError")
    /\ UNCHANGED <<values, timestamp, emailSubmitted, isSubmitting, posts,
                   captured, submits, stamps>>
    /\ UNCHANGED srcVars

NextAsk ==
    \/ \E f \in FormFields, v \in FieldInputs : SetFieldValue(f, v)
    \/ OnSubmit
    \/ \E k \in 1..MaxSubmits, data \in ResponseData : Resolve(k, data)
    \/ \E k \in 1..MaxSubmits : FetchRejects(k)
    \/ \E k \in 1..MaxSubmits : BodyNotJson(k)

SpecAsk == InitAsk /\ [][NextAsk]_vars

C20_Lifecycle ==
    /\ inflight = <<>> => ~isSubmitting
    /\ View = "QuestionSubmitted"
           <=> \E k \in DOMAIN stamps : stamps[k] \notin {Null, Undefined, ""}

==========================================================================
